---------------------------- MODULE Spec2Model ----------------------------
(***************************************************************************)
(* A model of src/src/FileUploader.js: the FileUploader component, its     *)
(* list of fileWithMeta objects and the asynchronous life of each of them  *)
(* (intake, preview generation, upload trigger, upload, cancel, remove,    *)
(* teardown, submit).                                                      *)
(*                                                                         *)
(* JavaScript runs the component on one event loop: every action below is  *)
(* one task of that loop (a UI call, a decoder callback, a promise         *)
(* resolution, a transport event) together with everything it calls        *)
(* synchronously, including the microtasks it leaves behind.               *)
(*                                                                         *)
(* fileWithMeta objects live in the heap `fwm` (they outlive their removal *)
(* from the list: closures and listeners keep them); `_files` holds        *)
(* references (indices into fwm), as the array of the code holds object    *)
(* references.                                                             *)
(***************************************************************************)
EXTENDS Integers, Sequences, FiniteSets, TLC

\* ------------------------------------------------------------------ bounds
\* handleFile is called at most MaxCalls times.
MaxCalls == 2

\* ------------------------------------------------------------------- state
VARIABLES
    props,      \* this.props, fixed at construction
    offered,    \* the files the host may hand over in this run
    id,         \* the module-level counter `let id = 0`
    _files,     \* this._files: references into fwm, in list order
    fwm,        \* the fileWithMeta objects ever created, in creation order
    calls,      \* how many times handleFile has been called
    unmounted   \* componentWillUnmount has run

vars == <<props, offered, id, _files, fwm, calls, unmounted>>

\* -------------------------------------------------------------- MIME types
\* A type is a sequence of tokens; String.prototype.startsWith is the
\* prefix test on it.
ImagePng == <<"image", "/", "png">>
AudioMpeg == <<"audio", "/", "mpeg">>
VideoMp4 == <<"video", "/", "mp4">>
TextPlain == <<"text", "/", "plain">>

StartsWith(t, p) ==
    /\ Len(p) <= Len(t)
    /\ SubSeq(t, 1, Len(p)) = p

\* The files the host may hand over: [size, type].
File(size, type) == [size |-> size, type |-> type]


\* The configurations of the component the model is run under.  Every
\* observer is a host function; `hasAllowed` tells whether allowedTypePrefixes
\* is given at all (an empty list is given, and matches nothing).
AllPreviews == <<"image", "audio", "video">>

DefaultProps ==
    [ maxSizeBytes |-> 1, maxFiles |-> MaxCalls,
      hasAllowed |-> FALSE, allowedTypePrefixes |-> <<>>,
      previewTypes |-> AllPreviews,
      getUploadParams |-> TRUE, onUploadReady |-> FALSE,
      onChangeStatus |-> TRUE, onCancel |-> TRUE, onRemove |-> TRUE,
      onSubmit |-> TRUE, submitAll |-> FALSE ]

\* The runs the model is checked on: a configuration and the files the host
\* hands over under it.  maxSizeBytes is 1 throughout: a file of size 1 is at
\* the limit, one of size 2 is over it.
Scenarios ==
    { \* uploads start as soon as the preview is there
      [ props |-> DefaultProps,
        files |-> {File(1, ImagePng), File(2, ImagePng)} ],
      \* the host gates every upload
      [ props |-> [DefaultProps EXCEPT !.onUploadReady = TRUE],
        files |-> {File(1, TextPlain), File(2, TextPlain)} ],
      \* no transport; every kind of file; submitAll
      [ props |-> [DefaultProps EXCEPT !.getUploadParams = FALSE,
                                       !.onUploadReady = TRUE,
                                       !.submitAll = TRUE],
        files |-> {File(1, TextPlain), File(1, ImagePng), File(1, AudioMpeg),
                   File(1, VideoMp4), File(2, VideoMp4)} ],
      \* one file at a time, of an allowed type; only audio is previewed
      [ props |-> [DefaultProps EXCEPT !.maxFiles = 1, !.hasAllowed = TRUE,
                                       !.allowedTypePrefixes =
                                           <<<<"image", "/">>, <<"text">>>>,
                                       !.previewTypes = <<"audio">>],
        files |-> {File(1, ImagePng), File(1, AudioMpeg), File(1, VideoMp4)} ],
      \* no observer at all, no transport
      [ props |-> [DefaultProps EXCEPT !.getUploadParams = FALSE,
                                       !.onChangeStatus = FALSE,
                                       !.onCancel = FALSE, !.onRemove = FALSE,
                                       !.onSubmit = FALSE],
        files |-> {File(1, VideoMp4), File(2, TextPlain)} ] }

\* ------------------------------------------------------------ small helpers
RECURSIVE GCD(_, _)
GCD(a, b) == IF b = 0 THEN a ELSE GCD(b, a % b)

\* A JavaScript number that is a ratio of two integers, in lowest terms.
Ratio(n, d) == <<n \div GCD(n, d), d \div GCD(n, d)>>

\* a <= b for two such numbers.
Leq(a, b) == a[1] * b[2] <= b[1] * a[2]

Hundred == Ratio(100, 1)

Includes(seq, x) == \E j \in 1..Len(seq) : seq[j] = x

Count(seq, x) == Cardinality({j \in 1..Len(seq) : seq[j] = x})

\* One call the component makes to the host or to the transport.
Ev(ev, f, status, list) == [ev |-> ev, f |-> f, status |-> status, list |-> list]

\* ------------------------------------------------------ the component state
\* The handlers are written as functions of the record below: the list, the
\* objects, the counter, and `out`, the calls the handler has made outside
\* the component so far (observers, host functions, the transport), in
\* order.  An action applies a handler to the current state and commits the
\* result; what a handler calls is read off its result.
Now == [files |-> _files, fwm |-> fwm, id |-> id, out |-> <<>>]

Commit(s) ==
    /\ _files' = s.files
    /\ fwm' = s.fwm
    /\ id' = s.id

\* handleChangeStatus: tell the observer, if there is one.
HandleChangeStatus(s, k) ==
    IF ~props.onChangeStatus THEN s
    ELSE [s EXCEPT !.fwm[k].notified = Append(@, s.fwm[k].status),
                   !.out = Append(@, Ev("onChangeStatus", k, s.fwm[k].status, <<>>))]

\* The three lines every status change is: assign, notify, forceUpdate
\* (forceUpdate re-renders and changes no state).
SetStatus(s, k, st) == HandleChangeStatus([s EXCEPT !.fwm[k].status = st], k)

\* The fileWithMeta object handleFile builds, with the closure state that
\* belongs to it: `triggered`, where handleFile (pc) and uploadFile (upc)
\* stand, the object URL and the decoder generatePreview made, the request.
NewEntry(file, newId) ==
    [ size |-> file.size, type |-> file.type,
      status |-> "preparing", percent |-> Ratio(0, 1), id |-> newId,
      previewUrl |-> FALSE, decoded |-> FALSE,
      triggerUpload |-> FALSE, triggered |-> FALSE,
      pc |-> "sync", upc |-> "idle",
      url |-> "none", decoder |-> "none",
      xhr |-> FALSE, readyState |-> 0, xhrStatus |-> 0, loaded |-> 0,
      notified |-> <<>>, nParams |-> 0, nSend |-> 0 ]

\* --------------------------------------------------------- generatePreview
IsImage(t) == StartsWith(t, <<"image", "/">>)
IsAudio(t) == StartsWith(t, <<"audio", "/">>)
IsVideo(t) == StartsWith(t, <<"video", "/">>)

\* Whether generatePreview waits for a decoder for this type.
AwaitsDecoder(t) ==
    \/ IsImage(t) /\ Includes(props.previewTypes, "image")
    \/ IsAudio(t) /\ Includes(props.previewTypes, "audio")
    \/ IsVideo(t) /\ Includes(props.previewTypes, "video")

\* generatePreview up to its first await, or to its end when it has none.
\* pc = "preview": handleFile is suspended until the decoder calls back;
\* pc = "microtask": generatePreview is over and handleFile resumes in the
\* microtask that follows the current task.
GeneratePreview(s, k) ==
    LET t == s.fwm[k].type IN
    IF ~IsImage(t) /\ ~IsAudio(t) /\ ~IsVideo(t)
    THEN [s EXCEPT !.fwm[k].pc = "microtask"]
    ELSE IF AwaitsDecoder(t)
    THEN [s EXCEPT !.fwm[k].url = "live",
                   !.fwm[k].previewUrl = IsImage(t),
                   !.fwm[k].decoder = "loading",
                   !.fwm[k].pc = "preview"]
    ELSE [s EXCEPT !.fwm[k].url = "revoked",
                   !.fwm[k].pc = "microtask"]

\* generatePreview from the decoder's callback to its end.
PreviewLoaded(s, k) ==
    [s EXCEPT !.fwm[k].decoded = TRUE,
              !.fwm[k].decoder = "ready",
              !.fwm[k].url = "revoked",
              !.fwm[k].pc = "microtask"]

\* ------------------------------------------------- triggerUpload, uploadFile
\* uploadFile up to its await: getUploadParams is called.
UploadFile(s, k) ==
    [s EXCEPT !.fwm[k].nParams = @ + 1,
              !.fwm[k].upc = "params",
              !.out = Append(@, Ev("getUploadParams", k, "", <<>>))]

\* StartUpload taking the transport branch whether or not there is a provider.
StartUploadAlwaysUploading(s, k) ==
    SetStatus(UploadFile([s EXCEPT !.fwm[k].triggered = TRUE], k), k, "uploading")

\* The upload triggerUpload starts on its first invocation.
StartUpload(s, k) ==
    LET s1 == [s EXCEPT !.fwm[k].triggered = TRUE] IN
    IF props.getUploadParams
    THEN SetStatus(UploadFile(s1, k), k, "uploading")
    ELSE SetStatus(s1, k, "done")

\* TriggerUpload without its `triggered` test.
TriggerUploadEveryTime(s, k) == StartUpload(s, k)

TriggerUpload(s, k) ==
    IF s.fwm[k].triggered THEN s
    ELSE StartUpload(s, k)

\* What the host's onUploadReady does: it may call triggerUpload itself, and
\* it may ask for the upload to be delayed.
Hooks == [trigger : BOOLEAN, delay : BOOLEAN]
NoHook == [trigger |-> FALSE, delay |-> FALSE]
HookChoices == IF props.onUploadReady THEN Hooks ELSE {NoHook}

\* AfterPreview not reading delayUpload.
AfterPreviewNoDelay(s, k, hook) ==
    LET s0 == [s EXCEPT !.fwm[k].pc = "returned"] IN
    IF ~props.onUploadReady THEN TriggerUpload(s0, k)
    ELSE LET s1 == [s0 EXCEPT !.fwm[k].triggerUpload = TRUE,
                              !.out = Append(@, Ev("onUploadReady", k, "", <<>>))]
             s2 == IF hook.trigger THEN TriggerUpload(s1, k) ELSE s1
         IN  TriggerUpload(s2, k)

\* handleFile after `await this.generatePreview(fileWithMeta)`.
AfterPreview(s, k, hook) ==
    LET s0 == [s EXCEPT !.fwm[k].pc = "returned"] IN
    IF ~props.onUploadReady THEN TriggerUpload(s0, k)
    ELSE LET s1 == [s0 EXCEPT !.fwm[k].triggerUpload = TRUE,
                              !.out = Append(@, Ev("onUploadReady", k, "", <<>>))]
             s2 == IF hook.trigger THEN TriggerUpload(s1, k) ELSE s1
         IN  IF hook.delay THEN s2 ELSE TriggerUpload(s2, k)

\* The microtasks a task leaves: every handleFile whose generatePreview has
\* ended resumes, in the order the promises were made.
RECURSIVE RunMicrotasks(_, _, _, _)
RunMicrotasks(s, k, hooks, base) ==
    IF k > Len(s.fwm) THEN s
    ELSE IF s.fwm[k].pc = "microtask"
    THEN RunMicrotasks(AfterPreview(s, k, hooks[k - base]), k + 1, hooks, base)
    ELSE RunMicrotasks(s, k + 1, hooks, base)

\* ---------------------------------------------------------------- handleFile
Allowed(type) ==
    \E j \in 1..Len(props.allowedTypePrefixes) :
        StartsWith(type, props.allowedTypePrefixes[j])

\* Rejected with the count test off by one.
RejectedAboveMax(s, file) ==
    \/ props.hasAllowed /\ ~Allowed(file.type)
    \/ Len(s.files) > props.maxFiles

Rejected(s, file) ==
    \/ props.hasAllowed /\ ~Allowed(file.type)
    \/ Len(s.files) >= props.maxFiles

\* TooLarge with the limit off by one.
TooLargeAboveNext(file) == file.size > props.maxSizeBytes + 1

TooLarge(file) == file.size > props.maxSizeBytes

\* NextId taken from the length of the list instead of the counter.
NextIdFromLength(s) == Len(s.files) + 1

\* The id handleFile leaves in the counter.
NextId(s) == s.id + 1

\* handleFile up to its first await (or to its return).
HandleFile(s, file) ==
    IF Rejected(s, file) THEN s
    ELSE LET k  == Len(s.fwm) + 1
             s1 == [s EXCEPT !.fwm = Append(@, NewEntry(file, s.id)),
                             !.files = Append(@, k)]
             s2 == [HandleChangeStatus(s1, k) EXCEPT !.id = NextId(s)]
         IN  IF TooLarge(file)
             THEN [SetStatus(s2, k, "error_file_size") EXCEPT !.fwm[k].pc = "returned"]
             ELSE GeneratePreview(s2, k)

\* handleFiles: files.forEach(this.handleFile).
RECURSIVE HandleFiles(_, _)
HandleFiles(s, files) ==
    IF files = <<>> THEN s
    ELSE HandleFiles(HandleFile(s, Head(files)), Tail(files))

\* ------------------------------------------------------------- the transport
\* The XMLHttpRequest of an entry: readyState 0 UNSENT, 1 OPENED (sent),
\* 2 HEADERS_RECEIVED, 3 LOADING, 4 DONE; xhrStatus is xhr.status, 0 until
\* the response arrives and 0 again after a network error or an abort.
HttpStatuses == {200, 400}

\* The progress listener: (e.loaded * 100.0 / e.total) || 100, for
\* 0 <= loaded <= total.  0 / 0 is NaN, and both NaN and 0 are falsy.
Percent(loaded, total) ==
    IF total = 0 \/ loaded = 0 THEN Hundred ELSE Ratio(loaded * 100, total)

OnProgress(s, k, loaded, total) ==
    [s EXCEPT !.fwm[k].percent = Percent(loaded, total)]

\* OnReadyStateChange listening to readyState 4 only.
OnReadyStateChangeDoneOnly(s, k) ==
    LET f == s.fwm[k] IN
    IF f.readyState # 4 THEN s
    ELSE IF f.xhrStatus = 0 THEN SetStatus(s, k, "aborted")
    ELSE IF f.xhrStatus < 400
    THEN SetStatus([s EXCEPT !.fwm[k].percent = Hundred], k, "done")
    ELSE SetStatus(s, k, "error_upload")

\* The readystatechange listener.
OnReadyStateChange(s, k) ==
    LET f == s.fwm[k] IN
    IF f.readyState # 2 /\ f.readyState # 4 THEN s
    ELSE IF f.xhrStatus = 0 THEN SetStatus(s, k, "aborted")
    ELSE IF f.xhrStatus < 400
    THEN SetStatus([s EXCEPT !.fwm[k].percent = Hundred], k,
                   IF f.readyState = 4 THEN "done" ELSE "headers_received")
    ELSE SetStatus(s, k, "error_upload")

\* xhr.abort(): a request in flight ends as a network error does (DONE,
\* status 0, readystatechange dispatched before abort returns).  The object
\* is then reset to UNSENT, as is a finished request that is aborted; an
\* ended request takes no further event and the component reads it no more,
\* so the reset is not told apart from DONE: readyState 4 stands for both.
Abort(s, k) ==
    LET s0 == [s EXCEPT !.out = Append(@, Ev("abort", k, "", <<>>))] IN
    IF s.fwm[k].readyState \in {1, 2, 3}
    THEN OnReadyStateChange([s0 EXCEPT !.fwm[k].readyState = 4,
                                       !.fwm[k].xhrStatus = 0,
                                       !.fwm[k].loaded = 0], k)
    ELSE s0

\* What getUploadParams resolves to: a value with a url or one without
\* ({}, null, undefined).  The extra meta it may carry is merged into meta;
\* it holds fields of the host's own, which the model does not follow.
Params == [url : BOOLEAN]

\* UploadFileResume without the `return` of its url test.
UploadFileResumeNoReturn(s, k, params) ==
    LET s0 == [s EXCEPT !.fwm[k].upc = "returned"]
        s1 == IF ~params.url THEN SetStatus(s0, k, "error_upload_params") ELSE s0
    IN  [s1 EXCEPT !.fwm[k].xhr = TRUE,
                   !.fwm[k].readyState = 1,
                   !.fwm[k].nSend = @ + 1,
                   !.out = Append(@, Ev("send", k, "", <<>>))]

\* uploadFile after `await getUploadParams(fileWithMeta)`.
UploadFileResume(s, k, params) ==
    LET s0 == [s EXCEPT !.fwm[k].upc = "returned"] IN
    IF ~params.url THEN SetStatus(s0, k, "error_upload_params")
    ELSE [s0 EXCEPT !.fwm[k].xhr = TRUE,
                    !.fwm[k].readyState = 1,
                    !.fwm[k].nSend = @ + 1,
                    !.out = Append(@, Ev("send", k, "", <<>>))]

\* ------------------------------------------------- cancel, remove, teardown
\* this._files.findIndex(f => f.meta.id === _id), 0 for -1.
FindIndex(s, someId) ==
    LET hits == {j \in 1..Len(s.files) : s.fwm[s.files[j]].id = someId} IN
    IF hits = {} THEN 0 ELSE CHOOSE j \in hits : \A h \in hits : j <= h

HandleCancel(s, someId) ==
    LET index == FindIndex(s, someId) IN
    IF index # 0 /\ s.fwm[s.files[index]].xhr
    THEN LET k  == s.files[index]
             s1 == IF props.onCancel
                   THEN [s EXCEPT !.out = Append(@, Ev("onCancel", k, "", <<>>))]
                   ELSE s
         IN  Abort(s1, k)
    ELSE s

\* Splice without its delete count: splice(index).
SpliceToEnd(seq, index) == SubSeq(seq, 1, index - 1)

\* Array.prototype.splice(index, 1).
Splice(seq, index) ==
    [j \in 1..(Len(seq) - 1) |-> IF j < index THEN seq[j] ELSE seq[j + 1]]

HandleRemove(s, someId) ==
    LET index == FindIndex(s, someId) IN
    IF index # 0
    THEN LET k  == s.files[index]
             s1 == IF props.onRemove
                   THEN [s EXCEPT !.out = Append(@, Ev("onRemove", k, "", <<>>))]
                   ELSE s
         IN  [s1 EXCEPT !.files = Splice(@, index)]
    ELSE s

\* componentWillUnmount from list position j on.  file.xhr is undefined
\* until uploadFile has sent the request: calling abort on it throws a
\* TypeError, which ends the loop.
RECURSIVE ComponentWillUnmount(_, _)
ComponentWillUnmount(s, j) ==
    IF j > Len(s.files) THEN s
    ELSE LET k == s.files[j] IN
         IF s.fwm[k].status # "uploading" THEN ComponentWillUnmount(s, j + 1)
         ELSE IF s.fwm[k].xhr THEN ComponentWillUnmount(Abort(s, k), j + 1)
         ELSE [s EXCEPT !.out = Append(@, Ev("TypeError", k, "", <<>>))]

\* ---------------------------------------------------------- submit, render
\* this._files.filter(f => f.meta.status === 'done').
RECURSIVE FilterDone(_, _)
FilterDone(s, list) ==
    IF list = <<>> THEN <<>>
    ELSE IF s.fwm[Head(list)].status = "done"
    THEN <<Head(list)>> \o FilterDone(s, Tail(list))
    ELSE FilterDone(s, Tail(list))

\* HandleSubmit not reading submitAll.
HandleSubmitFiltered(s) ==
    IF ~props.onSubmit THEN s
    ELSE [s EXCEPT !.out = Append(@, Ev("onSubmit", 0, "", FilterDone(s, s.files)))]

HandleSubmit(s) ==
    IF ~props.onSubmit THEN s
    ELSE IF props.submitAll
    THEN [s EXCEPT !.out = Append(@, Ev("onSubmit", 0, "", s.files))]
    ELSE [s EXCEPT !.out = Append(@, Ev("onSubmit", 0, "", FilterDone(s, s.files)))]

\* render shows the submit button.
SubmitRendered == Len(_files) > 0 /\ props.onSubmit

\* Disabled looking at 'uploading' only.
DisabledWhileUploading ==
    \/ \E j \in 1..Len(_files) : fwm[_files[j]].status = "uploading"
    \/ ~\E j \in 1..Len(_files) : fwm[_files[j]].status \in {"headers_received", "done"}

\* The `disabled` attribute render gives the submit button.
Disabled ==
    \/ \E j \in 1..Len(_files) : fwm[_files[j]].status \in {"uploading", "preparing"}
    \/ ~\E j \in 1..Len(_files) : fwm[_files[j]].status \in {"headers_received", "done"}

\* ------------------------------------------------------------------ actions
Init ==
    /\ \E sc \in Scenarios : props = sc.props /\ offered = sc.files
    /\ id = 0
    /\ _files = <<>>
    /\ fwm = <<>>
    /\ calls = 0
    /\ unmounted = FALSE

\* The configuration and the files at hand do not change.
Fixed == UNCHANGED <<props, offered>>

\* The host hands over a batch of files (a drop, a selection).
DoHandleFiles ==
    /\ ~unmounted
    /\ \E n \in 1..(MaxCalls - calls) :
       \E batch \in [1..n -> offered], hooks \in [1..n -> HookChoices] :
          /\ Commit(RunMicrotasks(HandleFiles(Now, batch), 1, hooks, Len(fwm)))
          /\ calls' = calls + n
          /\ Fixed
    /\ UNCHANGED unmounted

\* The decoder of entry k reports ready (onload, onloadedmetadata).
DecoderReady ==
    \E k \in 1..Len(fwm), hook \in HookChoices :
        /\ fwm[k].pc = "preview"
        /\ fwm[k].decoder = "loading"
        /\ Commit(RunMicrotasks(PreviewLoaded(Now, k), k, [j \in {1} |-> hook], k - 1))
        /\ Fixed
        /\ UNCHANGED <<calls, unmounted>>

\* The decoder of entry k fails (onerror): no listener is registered for it.
DecoderError ==
    \E k \in 1..Len(fwm) :
        /\ fwm[k].pc = "preview"
        /\ fwm[k].decoder = "loading"
        /\ Commit([Now EXCEPT !.fwm[k].decoder = "failed"])
        /\ Fixed
        /\ UNCHANGED <<calls, unmounted>>

\* The host calls the triggerUpload closure onUploadReady gave it.
HostTriggerUpload ==
    \E k \in 1..Len(fwm) :
        /\ fwm[k].triggerUpload
        /\ Commit(TriggerUpload(Now, k))
        /\ Fixed
        /\ UNCHANGED <<calls, unmounted>>

\* The promise of getUploadParams resolves.
ParamsResolved ==
    \E k \in 1..Len(fwm), params \in Params :
        /\ fwm[k].upc = "params"
        /\ Commit(UploadFileResume(Now, k, params))
        /\ Fixed
        /\ UNCHANGED <<calls, unmounted>>

\* Request body bytes went out: e.loaded of e.total, 0 <= loaded <= total;
\* total is 0 when the length is not computable.  The body goes out, loaded
\* never going back, before the response arrives.
ProgressEvents == {<<0, 0>>, <<0, 2>>, <<1, 2>>, <<2, 2>>}

XhrProgress ==
    \E k \in 1..Len(fwm), e \in ProgressEvents :
    LET loaded == e[1]
        total == e[2]
    IN  /\ fwm[k].xhr
        /\ fwm[k].readyState = 1
        /\ loaded >= fwm[k].loaded
        /\ Commit(OnProgress([Now EXCEPT !.fwm[k].loaded = loaded], k, loaded, total))
        /\ Fixed
        /\ UNCHANGED <<calls, unmounted>>

\* The response's status line and headers arrived.
XhrHeaders ==
    \E k \in 1..Len(fwm), st \in HttpStatuses :
        /\ fwm[k].xhr
        /\ fwm[k].readyState = 1
        /\ Commit(OnReadyStateChange([Now EXCEPT !.fwm[k].readyState = 2,
                                                 !.fwm[k].xhrStatus = st,
                                                 !.fwm[k].loaded = 0], k))
        /\ Fixed
        /\ UNCHANGED <<calls, unmounted>>

\* The response body starts to arrive.
XhrLoading ==
    \E k \in 1..Len(fwm) :
        /\ fwm[k].xhr
        /\ fwm[k].readyState = 2
        /\ Commit(OnReadyStateChange([Now EXCEPT !.fwm[k].readyState = 3], k))
        /\ Fixed
        /\ UNCHANGED <<calls, unmounted>>

\* The response is complete.
XhrDone ==
    \E k \in 1..Len(fwm) :
        /\ fwm[k].xhr
        /\ fwm[k].readyState \in {2, 3}
        /\ Commit(OnReadyStateChange([Now EXCEPT !.fwm[k].readyState = 4], k))
        /\ Fixed
        /\ UNCHANGED <<calls, unmounted>>

\* The request fails in flight (network error, timeout).
XhrError ==
    \E k \in 1..Len(fwm) :
        /\ fwm[k].xhr
        /\ fwm[k].readyState \in {1, 2, 3}
        /\ Commit(OnReadyStateChange([Now EXCEPT !.fwm[k].readyState = 4,
                                                 !.fwm[k].xhrStatus = 0,
                                                 !.fwm[k].loaded = 0], k))
        /\ Fixed
        /\ UNCHANGED <<calls, unmounted>>

DoHandleCancel ==
    \E someId \in 0..MaxCalls :
        /\ ~unmounted
        /\ Commit(HandleCancel(Now, someId))
        /\ Fixed
        /\ UNCHANGED <<calls, unmounted>>

DoHandleRemove ==
    \E someId \in 0..MaxCalls :
        /\ ~unmounted
        /\ Commit(HandleRemove(Now, someId))
        /\ Fixed
        /\ UNCHANGED <<calls, unmounted>>

DoHandleSubmit ==
    /\ ~unmounted
    /\ Commit(HandleSubmit(Now))
    /\ Fixed
    /\ UNCHANGED <<calls, unmounted>>

DoComponentWillUnmount ==
    /\ ~unmounted
    /\ Commit(ComponentWillUnmount(Now, 1))
    /\ unmounted' = TRUE
    /\ Fixed
    /\ UNCHANGED calls

Next ==
    \/ DoHandleFiles
    \/ DecoderReady
    \/ DecoderError
    \/ HostTriggerUpload
    \/ ParamsResolved
    \/ XhrProgress
    \/ XhrHeaders
    \/ XhrLoading
    \/ XhrDone
    \/ XhrError
    \/ DoHandleCancel
    \/ DoHandleRemove
    \/ DoHandleSubmit
    \/ DoComponentWillUnmount

Spec == Init /\ [][Next]_vars

\* ------------------------------------------------------------------- claims
Entries == 1..Len(fwm)

TerminalErrors == {"error_file_size", "error_upload_params", "error_upload", "aborted"}

\* The edges of the state machine of an entry.
Edges ==
    { <<"preparing", "error_file_size">>,
      <<"preparing", "uploading">>,
      <<"preparing", "done">>,
      <<"uploading", "error_upload_params">>,
      <<"uploading", "headers_received">>,
      <<"uploading", "error_upload">>,
      <<"uploading", "aborted">>,
      <<"headers_received", "done">>,
      <<"headers_received", "error_upload">>,
      <<"headers_received", "aborted">> }

\* C1: every change of an entry's status follows an edge of the state
\* machine; no edge leaves error_file_size, error_upload_params,
\* error_upload, aborted or done, so a terminal status never changes.
C1_StatusFollowsEdges ==
    [][\A k \in Entries :
          fwm'[k].status # fwm[k].status
              => <<fwm[k].status, fwm'[k].status>> \in Edges]_vars

\* C2: handleCancel on a listed entry whose status is 'uploading' calls
\* onCancel with the entry, then the transport's abort, and the entry ends
\* 'aborted' (by the listener abort runs, not by handleCancel).
C2_CancelUploadingAborts ==
    props.onCancel =>
        \A j \in 1..Len(_files) :
            LET k == _files[j]
                r == HandleCancel(Now, fwm[k].id)
            IN  fwm[k].status = "uploading" =>
                    /\ Len(r.out) >= 2
                    /\ r.out[1] = Ev("onCancel", k, "", <<>>)
                    /\ r.out[2] = Ev("abort", k, "", <<>>)
                    /\ r.fwm[k].status = "aborted"

\* C3: componentWillUnmount, run in any state, raises no fault and aborts
\* the transport of every listed entry whose status is 'uploading'.
C3_TeardownAbortsUploading ==
    ~unmounted =>
        LET r == ComponentWillUnmount(Now, 1) IN
        /\ \A e \in 1..Len(r.out) : r.out[e].ev # "TypeError"
        /\ \A j \in 1..Len(_files) :
               fwm[_files[j]].status = "uploading"
                   => Includes(r.out, Ev("abort", _files[j], "", <<>>))

\* C4: percent is 100 when an upload is 'done', and it never decreases on
\* the way: no step lowers the percent of an entry whose request is still
\* in flight afterwards (such an upload can still end 'done').
C4_PercentMonotonic ==
    /\ [](\A k \in Entries :
             fwm[k].status = "done" /\ fwm[k].nSend > 0
                 => fwm[k].percent = Hundred)
    /\ [][\A k \in Entries :
             fwm'[k].xhr /\ fwm'[k].readyState = 1
                 => Leq(fwm[k].percent, fwm'[k].percent)]_vars

\* C5: an entry in a terminal error status has had exactly one
\* onChangeStatus notification with that status.
C5_ErrorNotifiedOnce ==
    props.onChangeStatus =>
        \A k \in Entries :
            fwm[k].status \in TerminalErrors
                => Count(fwm[k].notified, fwm[k].status) = 1

\* C6: once the decoder of an entry has failed, the object URL is released
\* and handleFile has gone on to the upload-trigger stage.
C6_DecodeFailureSwallowed ==
    \A k \in Entries :
        fwm[k].decoder = "failed"
            => fwm[k].url = "revoked" /\ fwm[k].pc = "returned"

\* C7: the ids of the entries ever created are strictly increasing in the
\* order of acceptance (so no id is given twice, removed entries included),
\* the counter is above all of them, and an entry is listed once.
C7_IdsStrictlyIncreasing ==
    /\ \A a, b \in Entries : a < b => fwm[a].id < fwm[b].id
    /\ \A k \in Entries : fwm[k].id < id
    /\ \A i, j \in 1..Len(_files) : i # j => _files[i] # _files[j]

\* C7 witness: two entries accepted, one of them removed, a preview still
\* pending.
C7_Witness ==
    /\ Len(fwm) >= 2
    /\ Len(_files) < Len(fwm)
    /\ \E k \in Entries : fwm[k].pc = "preview"

\* C8: getUploadParams is called at most once and at most one request is
\* sent per entry; invoking triggerUpload on a triggered entry does nothing;
\* the status change of the trigger ('uploading', or 'done' without a
\* provider) has been notified exactly once.
C8_TriggerOnce ==
    \A k \in Entries :
        /\ fwm[k].nParams <= 1
        /\ fwm[k].nSend <= 1
        /\ fwm[k].triggered =>
              /\ TriggerUpload(Now, k) = Now
              /\ fwm[k].nParams = IF props.getUploadParams THEN 1 ELSE 0
              /\ props.onChangeStatus =>
                    Count(fwm[k].notified,
                          IF props.getUploadParams THEN "uploading" ELSE "done") = 1

\* C8 witness: an entry whose trigger the host holds and which has been
\* triggered, its one request sent and answered.
C8_Witness ==
    \E k \in Entries :
        /\ fwm[k].triggerUpload
        /\ fwm[k].triggered
        /\ fwm[k].nSend = 1
        /\ fwm[k].status = "done"

\* C9: an entry whose file is over maxSizeBytes has the status sequence
\* preparing, error_file_size and stays there; no preview is started for it,
\* getUploadParams is not called and no request is sent.
C9_TooLargeStops ==
    \A k \in Entries :
        fwm[k].size > props.maxSizeBytes =>
            /\ fwm[k].status = "error_file_size"
            /\ props.onChangeStatus
                   => fwm[k].notified = <<"preparing", "error_file_size">>
            /\ fwm[k].url = "none" /\ fwm[k].decoder = "none"
            /\ ~fwm[k].previewUrl
            /\ ~fwm[k].triggered /\ ~fwm[k].triggerUpload
            /\ fwm[k].nParams = 0 /\ fwm[k].nSend = 0 /\ ~fwm[k].xhr

\* C9 witness: an entry over the limit, beside an entry that has uploaded.
C9_Witness ==
    \E a, b \in Entries :
        /\ fwm[a].size > props.maxSizeBytes
        /\ fwm[a].status = "error_file_size"
        /\ b > a
        /\ fwm[b].status = "done" /\ fwm[b].nSend = 1

\* C10: handleFile on a file whose type matches no prefix of a configured
\* allowedTypePrefixes, or when the list holds maxFiles entries, changes
\* nothing (no entry, no id, no notification); the list never holds more
\* than maxFiles entries.
C10_RejectedLeavesNoTrace ==
    /\ Len(_files) <= props.maxFiles
    /\ \A file \in offered :
          LET noMatch == props.hasAllowed /\
                         \A j \in 1..Len(props.allowedTypePrefixes) :
                             ~StartsWith(file.type, props.allowedTypePrefixes[j])
              full    == Len(_files) = props.maxFiles
          IN  noMatch \/ full => HandleFile(Now, file) = Now

\* C10 witness: a call of handleFile has left no entry, the list is full
\* and a file of a type that is not allowed is at hand.
C10_Witness ==
    /\ calls > Len(fwm)
    /\ Len(_files) = props.maxFiles
    /\ \E file \in offered : props.hasAllowed /\ ~Allowed(file.type)

\* C11: an image within the limits, previewed, uploaded with a url and
\* answered with a status in [200, 400) at headers-received and at
\* completion: the observer has seen exactly preparing, uploading,
\* headers_received, done; percent is 100 and previewUrl is set.
C11_RoundTrip ==
    props.getUploadParams /\ props.onChangeStatus =>
        \A k \in Entries :
            /\ IsImage(fwm[k].type)
            /\ Includes(props.previewTypes, "image")
            /\ fwm[k].size <= props.maxSizeBytes
            /\ fwm[k].status = "done"
            => /\ fwm[k].notified =
                      <<"preparing", "uploading", "headers_received", "done">>
               /\ fwm[k].percent = Hundred
               /\ fwm[k].previewUrl
               /\ fwm[k].xhrStatus >= 200 /\ fwm[k].xhrStatus < 400

\* C11 witness: such an image, uploaded and done.
C11_Witness ==
    \E k \in Entries :
        /\ IsImage(fwm[k].type) /\ fwm[k].previewUrl
        /\ fwm[k].nSend = 1
        /\ fwm[k].readyState = 4 /\ fwm[k].xhrStatus = 200
        /\ fwm[k].status = "done"

\* C12: when getUploadParams resolves to a value without url, uploadFile
\* sets 'error_upload_params', notifies once, sends nothing and stores no
\* transport handle; the entry stays so.
C12_NoUrlNoRequest ==
    \A k \in Entries :
        /\ fwm[k].upc = "params" =>
              LET r == UploadFileResume(Now, k, [url |-> FALSE]) IN
              /\ r.fwm[k].status = "error_upload_params"
              /\ r.out = IF props.onChangeStatus
                         THEN <<Ev("onChangeStatus", k, "error_upload_params", <<>>)>>
                         ELSE <<>>
              /\ r.fwm[k].nSend = 0 /\ ~r.fwm[k].xhr
        /\ fwm[k].status = "error_upload_params" =>
              /\ fwm[k].nSend = 0 /\ ~fwm[k].xhr
              /\ props.onChangeStatus
                     => Count(fwm[k].notified, "error_upload_params") = 1

\* C12 witness: an entry left in error_upload_params.
C12_Witness ==
    \E k \in Entries :
        /\ fwm[k].status = "error_upload_params"
        /\ fwm[k].upc = "returned"
        /\ fwm[k].nParams = 1

\* C13: without a getUploadParams provider, triggering an entry takes it
\* from 'preparing' to 'done' with one notification, and no entry ever has
\* a request: getUploadParams is not called, nothing is sent.
C13_NoProviderDone ==
    ~props.getUploadParams =>
        \A k \in Entries :
            /\ fwm[k].nParams = 0 /\ fwm[k].nSend = 0 /\ ~fwm[k].xhr
            /\ fwm[k].upc = "idle"
            /\ fwm[k].triggered =>
                  /\ fwm[k].status = "done"
                  /\ props.onChangeStatus
                         => fwm[k].notified = <<"preparing", "done">>
            /\ ~fwm[k].triggered /\ fwm[k].status = "preparing" =>
                  LET r == TriggerUpload(Now, k) IN
                  /\ r.fwm[k].status = "done"
                  /\ r.out = IF props.onChangeStatus
                             THEN <<Ev("onChangeStatus", k, "done", <<>>)>>
                             ELSE <<>>

\* C13 witness: no provider, an entry triggered and done, another waiting
\* for the host's trigger.
C13_Witness ==
    /\ ~props.getUploadParams
    /\ \E a, b \in Entries :
          /\ fwm[a].triggered /\ fwm[a].status = "done"
          /\ fwm[b].triggerUpload /\ ~fwm[b].triggered

\* C14: when onUploadReady answers delayUpload = true the entry stays
\* 'preparing' and has no getUploadParams call and no request until the host
\* calls its triggerUpload; when the hook is absent or does not defer, the
\* upload is triggered as soon as preview generation has ended.
C14_Started(f) ==
    /\ f.triggered
    /\ f.status = IF props.getUploadParams THEN "uploading" ELSE "done"
    /\ f.nParams = IF props.getUploadParams THEN 1 ELSE 0

C14_Deferred(f) ==
    /\ ~f.triggered /\ f.triggerUpload
    /\ f.status = "preparing"
    /\ f.nParams = 0 /\ f.nSend = 0 /\ ~f.xhr

C14_DeferUntilTriggered ==
    \A k \in Entries :
        /\ fwm[k].pc = "preview" /\ fwm[k].decoder = "loading" =>
              \A hook \in HookChoices :
                  LET r == AfterPreview(PreviewLoaded(Now, k), k, hook) IN
                  IF props.onUploadReady /\ hook.delay /\ ~hook.trigger
                  THEN C14_Deferred(r.fwm[k])
                  ELSE C14_Started(r.fwm[k])
        /\ fwm[k].pc = "returned" /\ fwm[k].status # "error_file_size" =>
              IF fwm[k].triggered
              THEN fwm[k].nParams = IF props.getUploadParams THEN 1 ELSE 0
              ELSE /\ props.onUploadReady
                   /\ C14_Deferred(fwm[k])
                   /\ C14_Started(TriggerUpload(Now, k).fwm[k])
        /\ fwm[k].pc # "returned" => ~fwm[k].triggered /\ fwm[k].nParams = 0

\* C14 witness: with a provider, one entry deferred and still preparing
\* while another, not deferred, has had getUploadParams called.
C14_Witness ==
    /\ props.getUploadParams /\ props.onUploadReady
    /\ \E a, b \in Entries :
          /\ fwm[a].pc = "returned" /\ C14_Deferred(fwm[a])
          /\ fwm[b].triggered /\ fwm[b].nParams = 1

\* The statuses of the entries in the list.
ListedStatuses == {fwm[_files[j]].status : j \in 1..Len(_files)}

\* C15: the submit button is disabled in every state where some listed
\* entry is 'uploading' or 'preparing'; it is enabled only where some
\* listed entry is 'headers_received' or 'done' and none is 'uploading' or
\* 'preparing'.
C15_SubmitEnabling ==
    LET enabled == SubmitRendered /\ ~Disabled IN
    /\ ListedStatuses \cap {"uploading", "preparing"} # {} => ~enabled
    /\ enabled => /\ ListedStatuses \cap {"headers_received", "done"} # {}
                  /\ ListedStatuses \cap {"uploading", "preparing"} = {}

\* C15 witness: the button is enabled next to an entry that ended in an
\* error, after having been disabled by entries in progress.
C15_Witness ==
    /\ SubmitRendered /\ ~Disabled
    /\ Len(_files) = 2
    /\ ListedStatuses \cap {"headers_received", "done"} # {}
    /\ ListedStatuses \cap {"error_upload", "aborted", "error_file_size",
                            "error_upload_params"} # {}

\* The position of entry k in the list.
ListPosition(k) == CHOOSE j \in 1..Len(_files) : _files[j] = k

\* C16: handleSubmit hands onSubmit, when submitAll is false, exactly the
\* listed entries whose status is 'done', in list order, and when submitAll
\* is true the whole list; the list and the entries are left as they were.
C16_SubmitPassesDone ==
    props.onSubmit =>
        LET r == HandleSubmit(Now)
            L == r.out[1].list
        IN  /\ Len(r.out) = 1 /\ r.out[1].ev = "onSubmit"
            /\ r.files = _files /\ r.fwm = fwm /\ r.id = id
            /\ IF props.submitAll THEN L = _files
               ELSE /\ \A i \in 1..Len(L) :
                          /\ \E j \in 1..Len(_files) : _files[j] = L[i]
                          /\ fwm[L[i]].status = "done"
                    /\ \A j \in 1..Len(_files) :
                          fwm[_files[j]].status = "done"
                              => \E i \in 1..Len(L) : L[i] = _files[j]
                    /\ \A a, b \in 1..Len(L) :
                          a < b => ListPosition(L[a]) < ListPosition(L[b])

\* C16 witness: a filtered submit of a list whose first entry is not done
\* and whose second entry is: onSubmit gets the second entry alone.
C16_Witness ==
    /\ props.onSubmit /\ ~props.submitAll
    /\ Len(_files) = 2
    /\ fwm[_files[1]].status \notin {"done", "preparing"}
    /\ fwm[_files[2]].status = "done"
    /\ HandleSubmit(Now).out = <<Ev("onSubmit", 0, "", <<_files[2]>>)>>

\* What handleRemove(someId) does in the current state.
C17_RemoveEffect ==
    \A someId \in 0..MaxCalls :
        LET r    == HandleRemove(Now, someId)
            hits == {k \in Entries : fwm[k].id = someId /\ Includes(_files, k)}
        IN  IF hits = {} THEN r = Now
            ELSE \E k \in hits :
                    /\ r.out = IF props.onRemove
                               THEN <<Ev("onRemove", k, "", <<>>)>>
                               ELSE <<>>
                    /\ r.files = SelectSeq(_files, LAMBDA x : x # k)
                    /\ Len(r.files) = Len(_files) - 1
                    /\ r.fwm = fwm
                    /\ r.id = id

C18_XhrIffUploading ==
    \A k \in Entries : fwm[k].xhr <=> fwm[k].status = "uploading"

\* C19: a progress event with 0 <= loaded <= total sets percent to
\* loaded * 100 / total when total > 0 and to 100 when total is 0; percent
\* is within 0..100.
C19_ProgressPercent ==
    \A k \in Entries :
        fwm[k].xhr /\ fwm[k].readyState = 1 =>
            \A e \in ProgressEvents :
                LET loaded == e[1]
                    total  == e[2]
                    p      == OnProgress(Now, k, loaded, total).fwm[k].percent
                IN  /\ p = IF total > 0 THEN Ratio(loaded * 100, total) ELSE Hundred
                    /\ Leq(Ratio(0, 1), p) /\ Leq(p, Hundred)

\* C20: every object URL generatePreview allocates is released when it is
\* left -- by success, by a decoder failure, by a category that is not
\* enabled -- except the URL of an image whose preview is enabled, which
\* stays live in meta.previewUrl.
C20_ObjectUrlReleased ==
    \A k \in Entries :
        /\ fwm[k].url # "none"
        /\ fwm[k].decoder # "loading"
        => fwm[k].url = IF fwm[k].previewUrl THEN "live" ELSE "revoked"

=============================================================================
